---- MODULE Spec2Model ----
(***************************************************************************)
(* Model of DFP.h: fixpoint cells (Fixpoint<T>), expression trees          *)
(* (FixpointComputation<T>, FixpointReference<T>, FixpointParameter), the  *)
(* per-call cache (FixpointCache<T>), pattern dispatch (pattern_match /    *)
(* match) and the evaluator (operator(), Computation, ToT, evaluate).      *)
(*                                                                         *)
(* The recursive evaluator is modelled as a stack machine: `node` is the   *)
(* subtree under evaluation, `val` the value just returned, `stack` the    *)
(* C++ call stack of Computation frames, `caches` the live FixpointCache   *)
(* objects (one per operator() activation, innermost last).                *)
(***************************************************************************)
EXTENDS Integers, Sequences, FiniteSets, TLC

(***************************************************************************)
(* The numeric domain T.  T is a floating-point type; it is modelled as    *)
(* decimal fixed point with Scale units per 1.0, rounded to nearest, plus  *)
(* the IEEE specials NaN, +Inf and -Inf (a signed zero is not modelled).   *)
(***************************************************************************)
Scale == 1000

Fin(n) == [k |-> "fin", n |-> n]
NaN == [k |-> "nan", n |-> 0]
PInf == [k |-> "pinf", n |-> 0]
NInf == [k |-> "ninf", n |-> 0]

\* an int converted to T
OfInt(i) == Fin(i * Scale)

IsFin(a) == a.k = "fin"
IsInf(a) == a.k \in {"pinf", "ninf"}

\* sign of a value of T that is not NaN: -1, 0 or 1
Sgn(a) ==
    IF a.k = "pinf" THEN 1
    ELSE IF a.k = "ninf" THEN -1
    ELSE IF a.n > 0 THEN 1 ELSE IF a.n < 0 THEN -1 ELSE 0

InfOfSign(s) == IF s > 0 THEN PInf ELSE NInf

AbsInt(n) == IF n < 0 THEN -n ELSE n

\* n / d rounded to the nearest integer (d > 0), halves away from zero
RoundDiv(n, d) ==
    IF n >= 0 THEN (2 * n + d) \div (2 * d)
    ELSE -((2 * (-n) + d) \div (2 * d))

Neg(a) ==
    IF a.k = "fin" THEN Fin(-a.n)
    ELSE IF a.k = "pinf" THEN NInf
    ELSE IF a.k = "ninf" THEN PInf
    ELSE NaN

TAdd(a, b) ==
    IF a.k = "nan" \/ b.k = "nan" THEN NaN
    ELSE IF IsInf(a) /\ IsInf(b) THEN (IF a.k = b.k THEN a ELSE NaN)
    ELSE IF IsInf(a) THEN a
    ELSE IF IsInf(b) THEN b
    ELSE Fin(a.n + b.n)

\* a subtraction that yields its left operand
TSub_Keep(a, b) == a

TSub(a, b) == TAdd(a, Neg(b))

TMul(a, b) ==
    IF a.k = "nan" \/ b.k = "nan" THEN NaN
    ELSE IF IsInf(a) \/ IsInf(b)
         THEN (IF Sgn(a) * Sgn(b) = 0 THEN NaN ELSE InfOfSign(Sgn(a) * Sgn(b)))
    ELSE Fin(RoundDiv(a.n * b.n, Scale))

TDiv(a, b) ==
    IF a.k = "nan" \/ b.k = "nan" THEN NaN
    ELSE IF IsInf(a) /\ IsInf(b) THEN NaN
    ELSE IF IsInf(a) THEN InfOfSign(IF Sgn(b) < 0 THEN -Sgn(a) ELSE Sgn(a))
    ELSE IF IsInf(b) THEN Fin(0)
    ELSE IF b.n = 0 THEN (IF a.n = 0 THEN NaN ELSE InfOfSign(Sgn(a)))
    ELSE IF b.n > 0 THEN Fin(RoundDiv(a.n * Scale, b.n))
    ELSE Fin(RoundDiv(-(a.n * Scale), -b.n))

\* a ceil that rounds toward -infinity
TCeil_Floor(a) ==
    IF a.k # "fin" THEN a
    ELSE Fin((a.n \div Scale) * Scale)

\* std::ceil: toward +infinity
TCeil(a) ==
    IF a.k # "fin" THEN a
    ELSE Fin(-(((-a.n) \div Scale) * Scale))

\* std::floor: toward -infinity
TFloor(a) ==
    IF a.k # "fin" THEN a
    ELSE Fin((a.n \div Scale) * Scale)

\* std::abs
TAbs(a) ==
    IF a.k = "fin" THEN Fin(AbsInt(a.n))
    ELSE IF IsInf(a) THEN PInf
    ELSE NaN

\* a > b on T: false as soon as one side is NaN
TGt(a, b) ==
    IF a.k = "nan" \/ b.k = "nan" THEN FALSE
    ELSE IF a.k = "pinf" THEN b.k # "pinf"
    ELSE IF a.k = "ninf" THEN FALSE
    ELSE IF b.k = "pinf" THEN FALSE
    ELSE IF b.k = "ninf" THEN TRUE
    ELSE a.n > b.n

\* a <= b on T: false as soon as one side is NaN
TLe(a, b) ==
    IF a.k = "nan" \/ b.k = "nan" THEN FALSE ELSE ~TGt(a, b)

\* int == T (the int is converted to T); NaN equals nothing
IntEqT(i, t) == t.k = "fin" /\ t.n = i * Scale

\* a threshold of 1.0 instead of 0.01
delta_Loose == Fin(Scale)

\* T delta = 0.01
delta == Fin(Scale \div 100)

(***************************************************************************)
(* Expression trees.  A child of a FixpointComputation is a variant of     *)
(* FixpointParameter ("param"), FixpointReference ("ref") or               *)
(* FixpointComputation ("comp").                                           *)
(***************************************************************************)

\* FixpointReference(Fixpoint<T>&) / FixpointReference(Fixpoint<T>*)
RefCell(c) == [t |-> "ref", holds |-> "fixpoint", cell |-> c, lit |-> Fin(0)]

\* FixpointReference(const T&)
RefT(v) == [t |-> "ref", holds |-> "T", cell |-> "", lit |-> v]

\* FixpointParameter(int)
ParamConst(i) ==
    [t |-> "param", generalType |-> "constant", hasInt |-> TRUE, value |-> i,
     hasOp |-> FALSE, operation |-> "", children |-> <<>>]

\* FixpointParameter()
ParamVar ==
    [t |-> "param", generalType |-> "variable", hasInt |-> FALSE, value |-> 0,
     hasOp |-> FALSE, operation |-> "", children |-> <<>>]

\* FixpointParameter::operator-(int), operator+(int), operator*(int)
ParamOp(op, p, i) ==
    [ParamVar EXCEPT !.hasOp = TRUE, !.operation = op,
                     !.children = <<p, ParamConst(i)>>]

\* the free operators /, +, * and the special functions
Comp(op, kids) == [t |-> "comp", operation |-> op, children |-> kids]

\* Fixpoint<T>::operator=(const FixpointComputation<T>&)
NextLayerOf(c, rhs) == Comp("next_layer_equivalence", <<RefCell(c), rhs>>)

\* Fixpoint<T>::operator()(FixpointParameter)
CallOf(c, p) == Comp("parametrized_reference", <<RefCell(c), p>>)

\* FixpointParameterComputation<T>::operator=(...): the node that is
\* appended to the cell's fixpointComputations
EquationOf(lhs, rhs) == Comp("parametrized_equivalence", <<lhs, rhs>>)

BinaryOps == {"division", "multiplication", "addition", "subtraction"}
UnaryOps == {"ceil", "floor"}

ApplyBinary(op, a, b) ==
    IF op = "division" THEN TDiv(a, b)
    ELSE IF op = "multiplication" THEN TMul(a, b)
    ELSE IF op = "addition" THEN TAdd(a, b)
    ELSE TSub(a, b)

ApplyUnary(op, a) == IF op = "ceil" THEN TCeil(a) ELSE TFloor(a)

(***************************************************************************)
(* FixpointCache<T>                                                        *)
(***************************************************************************)
NoParameter == [has |-> FALSE, v |-> Fin(0)]

\* a cache that is reused with an entry for x and a binding from before
NewCache_Stale ==
    [cacheFixpoints |-> [c \in {"x"} |-> Fin(0)],
     parameter |-> [has |-> TRUE, v |-> Fin(0)]]

\* a default-constructed FixpointCache
NewCache == [cacheFixpoints |-> <<>>, parameter |-> NoParameter]

\* a lookup that never finds an entry
contains_Never(cache, c) == FALSE

\* FixpointCache::contains
contains(cache, c) == c \in DOMAIN cache.cacheFixpoints

\* remember that only inserts: an existing entry keeps its value
remember_InsertOnly(cache, c, v) ==
    IF c \in DOMAIN cache.cacheFixpoints
    THEN cache
    ELSE [cache EXCEPT !.cacheFixpoints =
            [d \in (DOMAIN cache.cacheFixpoints) \cup {c} |->
                IF d = c THEN v ELSE cache.cacheFixpoints[d]]]

\* FixpointCache::remember
remember(cache, c, v) ==
    [cache EXCEPT !.cacheFixpoints =
        [d \in (DOMAIN cache.cacheFixpoints) \cup {c} |->
            IF d = c THEN v ELSE cache.cacheFixpoints[d]]]

register_parameter(cache, v) ==
    [cache EXCEPT !.parameter = [has |-> TRUE, v |-> v]]

\* values an out-of-bounds read may produce
Garbage == {Fin(0), Fin(7 * Scale)}

\* get(): find(rhs)->second.  With no entry find() returns end() and the
\* dereference is undefined: the read yields some value or the process dies.
get(cache, c) ==
    IF contains(cache, c)
    THEN {[ok |-> TRUE, v |-> cache.cacheFixpoints[c]]}
    ELSE {[ok |-> TRUE, v |-> g] : g \in Garbage} \cup {[ok |-> FALSE, v |-> Fin(0)]}

\* get_parameter() that answers 0 when no parameter was registered
get_parameter_Default(cache) ==
    IF cache.parameter.has
    THEN [err |-> "", v |-> cache.parameter.v]
    ELSE [err |-> "", v |-> Fin(0)]

\* get_parameter(): the value, or std::logic_error("Invalid access.")
get_parameter(cache) ==
    IF cache.parameter.has
    THEN [err |-> "", v |-> cache.parameter.v]
    ELSE [err |-> "Invalid access.", v |-> Fin(0)]

(***************************************************************************)
(* FixpointParameter::evaluate: the value of a parameter expression, or    *)
(* the message of the std::logic_error it throws.                          *)
(***************************************************************************)
RECURSIVE evaluate(_, _)
evaluate(p, cache) ==
    IF p.hasOp
    THEN LET a == evaluate(p.children[1], cache)
         IN  IF p.operation \in BinaryOps
             THEN LET b == evaluate(p.children[2], cache)
                  IN  IF a.err # "" THEN a
                      ELSE IF b.err # "" THEN b
                      ELSE [err |-> "", v |-> ApplyBinary(p.operation, a.v, b.v)]
             ELSE IF p.operation \in UnaryOps
             THEN IF a.err # "" THEN a
                  ELSE [err |-> "", v |-> ApplyUnary(p.operation, a.v)]
             ELSE [err |-> "Unsupported or invalid operation.", v |-> Fin(0)]
    ELSE IF ~p.hasInt THEN get_parameter(cache)
    ELSE [err |-> "", v |-> OfInt(p.value)]

(***************************************************************************)
(* Pattern dispatch                                                        *)
(***************************************************************************)
\* match that evaluates a composite pattern and compares its value
match_Evaluated(eq, t) ==
    LET parameter == eq.children[1].children[2]
    IN  IF parameter.hasOp
        THEN evaluate(parameter, NewCache).err = "" => evaluate(parameter, NewCache).v = t
        ELSE IF parameter.generalType = "constant"
        THEN parameter.hasInt /\ IntEqT(parameter.value, t)
        ELSE TRUE

\* FixpointComputation::match
match(eq, t) ==
    LET coreComputation == eq.children[1]
        parameter == coreComputation.children[2]
    IN  IF parameter.generalType = "constant"
        THEN parameter.hasInt /\ IntEqT(parameter.value, t)
        ELSE TRUE

\* matches ordered by specificity: constant patterns before the others
validMatches_Specific(eqs, t) ==
    SelectSeq(eqs, LAMBDA eq : match(eq, t)
                               /\ eq.children[1].children[2].generalType = "constant")
    \o SelectSeq(eqs, LAMBDA eq : match(eq, t)
                                  /\ eq.children[1].children[2].generalType # "constant")

\* the validMatches vector built by Fixpoint::pattern_match
validMatches(eqs, t) == SelectSeq(eqs, LAMBDA eq : match(eq, t))

\* pattern_match that returns the last valid match
pattern_match_Last(eqs, t) == validMatches(eqs, t)[Len(validMatches(eqs, t))]

\* Fixpoint::pattern_match returns validMatches[0]; on an empty vector the
\* access is undefined (see Dispatch)
pattern_match(eqs, t) == validMatches(eqs, t)[1]

(***************************************************************************)
(* Bounds and the inputs the operations are applied to                     *)
(***************************************************************************)
\* longest equation list registered on a cell
MaxEqs == 2
\* deepest nesting of operator()(T) activations before the C++ stack is
\* exhausted
MaxDepth == 4

Cells == {"x", "f"}

\* seeds of Fixpoint(const T&): x starts at 1.0 or 2.0, f at 0
InitialValues == [x : {Fin(Scale), Fin(2 * Scale)}, f : {Fin(0)}]

\* x := (x + 2/x) / 2
Newton ==
    Comp("division",
         <<Comp("addition",
                <<RefCell("x"), Comp("division", <<RefT(Fin(2 * Scale)), RefCell("x")>>)>>),
           RefT(Fin(2 * Scale))>>)
\* x := x * -1
Flip == Comp("multiplication", <<RefCell("x"), RefT(Fin(-Scale))>>)
\* x := f + 1 (the body does not read x)
Blind == Comp("addition", <<RefCell("f"), RefT(Fin(Scale))>>)
\* x := x / 0
Blow == Comp("division", <<RefCell("x"), RefT(Fin(0))>>)

SelfBodies == {Newton, Flip, Blind, Blow}

bodyA == RefT(Fin(10 * Scale))
bodyB == RefT(Fin(20 * Scale))
\* f(n - 1) * n
bodyRec ==
    Comp("multiplication", <<CallOf("f", ParamOp("subtraction", ParamVar, 1)), ParamVar>>)

\* 6 / 3, ceil(2.5), floor(2.5)
Div63 == Comp("division", <<RefT(Fin(6 * Scale)), RefT(Fin(3 * Scale))>>)
Ceil25 == Comp("ceil", <<RefT(Fin(5 * (Scale \div 2)))>>)
Floor25 == Comp("floor", <<RefT(Fin(5 * (Scale \div 2)))>>)

\* ceil(5 / 2) * 3
CeilTimes ==
    Comp("multiplication",
         <<Comp("ceil", <<Comp("division", <<RefT(Fin(5 * Scale)), RefT(Fin(2 * Scale))>>)>>),
           RefT(Fin(3 * Scale))>>)

\* (pattern, body) pairs that may be registered on f
Equations ==
    { <<ParamConst(0), bodyA>>, <<ParamVar, bodyB>>,
      <<ParamVar, RefCell("x")>>, <<ParamVar, NextLayerOf("x", Newton)>>,
      <<ParamVar, bodyRec>>, <<ParamOp("addition", ParamConst(3), 1), bodyA>> }

Arguments ==
    {ParamConst(0), ParamConst(1), ParamConst(2), ParamConst(5), ParamVar,
     ParamOp("subtraction", ParamVar, 1)}

\* trees evaluated through operator()()
Trees ==
    { NextLayerOf("x", b) : b \in SelfBodies } \cup
    { CallOf("f", a) : a \in Arguments } \cup
    { Comp("addition", <<RefCell("x"), CallOf("f", ParamConst(0))>>),
      Comp("addition",
           <<Comp("addition", <<RefCell("x"), CallOf("f", ParamConst(5))>>),
             RefCell("x")>>),
      Div63, Ceil25, Floor25, CeilTimes }

NoNode == RefT(Fin(0))
NoVal == Fin(0)
NoEvent == [op |-> "none"]
NoConv == [has |-> FALSE, v |-> Fin(0), earlier |-> FALSE]

VARIABLES
    value,                  \* Fixpoint::value of every cell
    fixpointComputations,   \* Fixpoint::fixpointComputations of every cell
    pc,                     \* "idle", "eval", "ret", "done", "error", "crashed"
    node,                   \* the subtree being evaluated (pc = "eval")
    val,                    \* the value just returned (pc = "ret")
    stack,                  \* pending Computation activations, innermost last
    caches,                 \* live FixpointCache objects, innermost last
    result,                 \* value returned by the last top-level call
    err,                    \* what() of the exception that ended the call
    ev,                     \* the step just taken, for the properties
    seen,                   \* cells read since the top-level call started
    top,                    \* the top-level call: its tree and x at its start
    conv                    \* per cell, the value its last finished loop returned

vars == <<value, fixpointComputations, pc, node, val, stack, caches, result, err, ev,
          seen, top, conv>>

Top == caches[Len(caches)]
SetTop(c) == [caches EXCEPT ![Len(caches)] = c]
Pop(s) == SubSeq(s, 1, Len(s) - 1)

Init ==
    /\ value \in InitialValues
    /\ fixpointComputations = [c \in Cells |-> <<>>]
    /\ pc = "idle"
    /\ node = NoNode
    /\ val = NoVal
    /\ stack = <<>>
    /\ caches = <<>>
    /\ result = NoVal
    /\ err = ""
    /\ ev = NoEvent
    /\ seen = {}
    /\ top = [tree |-> NoNode, x0 |-> value["x"], calls |-> 0]
    /\ conv = [c \in Cells |-> NoConv]

\* no evaluation is running
Quiet == pc \in {"idle", "done", "error"}

\* FixpointParameterComputation::operator=: f(pattern) = body appends the
\* equation to f's list
Register(c, pattern, body) ==
    /\ Quiet
    /\ Len(fixpointComputations[c]) < MaxEqs
    /\ fixpointComputations' =
         [fixpointComputations EXCEPT
            ![c] = Append(@, EquationOf(CallOf(c, pattern), body))]
    /\ ev' = [op |-> "register", cell |-> c]
    /\ UNCHANGED <<value, pc, node, val, stack, caches, result, err, seen, top, conv>>

\* an exception leaves Computation: every activation and cache is destroyed
Throw(msg) ==
    /\ pc' = "error"
    /\ err' = msg
    /\ node' = NoNode
    /\ val' = NoVal
    /\ stack' = <<>>
    /\ caches' = <<>>

\* the process dies
Crash(why) ==
    /\ pc' = "crashed"
    /\ err' = why
    /\ node' = NoNode
    /\ val' = NoVal
    /\ stack' = <<>>
    /\ caches' = <<>>

\* ToT that takes the live value on every read
ToT_Live(ref, cache) ==
    IF ref.holds = "fixpoint"
    THEN LET c2 == remember(cache, ref.cell, value[ref.cell])
         IN  [v |-> c2.cacheFixpoints[ref.cell], cache |-> c2]
    ELSE [v |-> ref.lit, cache |-> cache]

\* FixpointReference::ToT(FixpointCache&): the value and the cache after
ToT(ref, cache) ==
    IF ref.holds = "fixpoint"
    THEN IF contains(cache, ref.cell)
         THEN [v |-> cache.cacheFixpoints[ref.cell], cache |-> cache]
         ELSE LET c2 == remember(cache, ref.cell, value[ref.cell])
              IN  [v |-> c2.cacheFixpoints[ref.cell], cache |-> c2]
    ELSE [v |-> ref.lit, cache |-> cache]

\* what an access to validMatches[0] of an empty vector may do: the process
\* dies, or the call goes on with an arbitrary result
NoMatchOutcome(stk, cs) ==
    \/ Crash("validMatches[0] on an empty vector")
    \/ \E g \in Garbage :
          /\ pc' = "ret"
          /\ val' = g
          /\ node' = NoNode
          /\ stack' = stk
          /\ caches' = cs
          /\ err' = ""

\* the binding is written into the caller's cache as well
CalleeCaches_Shared(cs, parameter1) ==
    IF cs = <<>>
    THEN <<register_parameter(NewCache, parameter1)>>
    ELSE Append([cs EXCEPT ![Len(cs)] = register_parameter(cs[Len(cs)], parameter1)],
                register_parameter(NewCache, parameter1))

\* FixpointCache<T> cache; cache.register_parameter(parameter1): the caches
\* once operator()(T) has built its own
CalleeCaches(cs, parameter1) == Append(cs, register_parameter(NewCache, parameter1))

\* the frame of an operator()(T) activation: what it was called with and the
\* binding its caller had
CallFrame(cs, parameter1) ==
    [f |-> "callret", bound |-> parameter1,
     saved |-> IF cs = <<>> THEN NoParameter ELSE cs[Len(cs)].parameter]

\* an invocation that runs the body of the equation it was called on
Redispatch_Own(computation, parameter1) == computation

\* auto computation = fixpointPtr->pattern_match(parameter1): the equation
\* whose body operator()(T) runs when it is called on an equation node
Redispatch(computation, parameter1) ==
    pattern_match(fixpointComputations[computation.children[1].children[1].cell],
                  parameter1)

\* FixpointComputation::operator()(T parameter1), called on `computation`
\* with the activations stk and the caches cs below it
Invoke(computation, parameter1, stk, cs) ==
    IF Len(cs) >= MaxDepth
        THEN Crash("stack exhausted")
        ELSE IF computation.operation = "parametrized_equivalence"
        THEN LET computationReference == computation.children[1]
                 fixpointPtr == computationReference.children[1].cell
                 matches == validMatches(fixpointComputations[fixpointPtr], parameter1)
             IN  IF matches = <<>>
                 THEN NoMatchOutcome(stk, cs)
                 ELSE LET value_ == Redispatch(computation, parameter1).children[2]
                      IN  IF value_.t \in {"comp", "ref"}
                          THEN /\ pc' = "eval"
                               /\ node' = value_
                               /\ val' = NoVal
                               /\ stack' = Append(stk, CallFrame(cs, parameter1))
                               /\ caches' = CalleeCaches(cs, parameter1)
                               /\ err' = ""
                          ELSE Throw("Unsupported or invalid computation.")
        ELSE /\ pc' = "eval"
             /\ node' = computation
             /\ val' = NoVal
             /\ stack' = Append(stk, CallFrame(cs, parameter1))
             /\ caches' = CalleeCaches(cs, parameter1)
             /\ err' = ""

\* FixpointComputation::operator()(): a fresh cache, then Computation
Start(tree) ==
    /\ Quiet
    /\ pc' = "eval"
    /\ node' = tree
    /\ val' = NoVal
    /\ stack' = <<>>
    /\ caches' = <<NewCache>>
    /\ err' = ""
    /\ ev' = [op |-> "start", param |-> FALSE]
    /\ seen' = {}
    /\ result' = NoVal
    /\ top' = [tree |-> tree, x0 |-> value["x"], calls |-> 0]
    /\ conv' = [c \in Cells |-> [conv[c] EXCEPT !.earlier = conv[c].has]]
    /\ UNCHANGED <<value, fixpointComputations>>

\* FixpointComputation::operator()(T) called by the client
StartParam(tree, parameter1) ==
    /\ Quiet
    /\ Invoke(tree, parameter1, <<>>, <<>>)
    /\ ev' = [op |-> "start", param |-> TRUE, tree |-> tree, arg |-> parameter1]
    /\ seen' = {}
    /\ result' = NoVal
    /\ top' = [tree |-> tree, x0 |-> value["x"], calls |-> 0]
    /\ conv' = [c \in Cells |-> [conv[c] EXCEPT !.earlier = conv[c].has]]
    /\ UNCHANGED <<value, fixpointComputations>>

\* LocalParameterComputation on a FixpointReference child
EvalRef ==
    /\ pc = "eval"
    /\ node.t = "ref"
    /\ LET r == ToT(node, Top)
       IN  /\ val' = r.v
           /\ caches' = SetTop(r.cache)
           /\ ev' = IF node.holds = "fixpoint"
                    THEN [op |-> "ToT", cell |-> node.cell, hit |-> contains(Top, node.cell),
                          seenBefore |-> node.cell \in seen, v |-> r.v,
                          entry |-> IF contains(Top, node.cell)
                                    THEN Top.cacheFixpoints[node.cell] ELSE NoVal,
                          live |-> value[node.cell]]
                    ELSE [op |-> "literal"]
           /\ seen' = IF node.holds = "fixpoint" THEN seen \cup {node.cell} ELSE seen
    /\ pc' = "ret"
    /\ node' = NoNode
    /\ UNCHANGED <<value, fixpointComputations, stack, result, err, top, conv>>

\* LocalParameterComputation on a FixpointParameter child
EvalParam ==
    /\ pc = "eval"
    /\ node.t = "param"
    /\ LET r == evaluate(node, Top)
       IN  /\ IF r.err # ""
              THEN Throw(r.err)
              ELSE /\ pc' = "ret"
                   /\ val' = r.v
                   /\ node' = NoNode
                   /\ UNCHANGED <<stack, caches, err>>
           /\ ev' = [op |-> "parameter", bound |-> Top.parameter.has,
                     reads |-> node, thrown |-> r.err # ""]
    /\ UNCHANGED <<value, fixpointComputations, result, seen, top, conv>>

\* Computation: the binary cases.  The two operands are operands of one C++
\* operator, so the build fixes which of them runs first.
EvalBinary ==
    /\ pc = "eval"
    /\ node.t = "comp"
    /\ node.operation \in BinaryOps
    /\ \E first \in {1, 2} :
          /\ stack' = Append(stack, [f |-> "bin1", op |-> node.operation, first |-> first,
                                     other |-> node.children[3 - first]])
          /\ node' = node.children[first]
    /\ ev' = [op |-> "binary"]
    /\ UNCHANGED <<value, fixpointComputations, pc, val, caches, result, err, seen, top, conv>>

\* the first operand returned: run the other one
RetBin1 ==
    /\ pc = "ret"
    /\ stack # <<>>
    /\ LET fr == stack[Len(stack)]
       IN  /\ fr.f = "bin1"
           /\ stack' = Append(Pop(stack), [f |-> "bin2", op |-> fr.op, first |-> fr.first,
                                           v |-> val])
           /\ node' = fr.other
    /\ pc' = "eval"
    /\ val' = NoVal
    /\ ev' = [op |-> "operand"]
    /\ UNCHANGED <<value, fixpointComputations, caches, result, err, seen, top, conv>>

\* the operator applied to the operands in the order they were evaluated
Combine_InOrder(fr, v) == ApplyBinary(fr.op, fr.v, v)

\* LocalParameterComputation(0) op LocalParameterComputation(1): fr.v is the
\* operand that was evaluated first, v the other one
Combine(fr, v) ==
    IF fr.first = 1 THEN ApplyBinary(fr.op, fr.v, v) ELSE ApplyBinary(fr.op, v, fr.v)

\* both operands returned: apply the operator
RetBin2 ==
    /\ pc = "ret"
    /\ stack # <<>>
    /\ LET fr == stack[Len(stack)]
       IN  /\ fr.f = "bin2"
           /\ val' = Combine(fr, val)
           /\ ev' = [op |-> "apply", operation |-> fr.op,
                     l |-> IF fr.first = 1 THEN fr.v ELSE val,
                     r |-> IF fr.first = 1 THEN val ELSE fr.v]
    /\ stack' = Pop(stack)
    /\ UNCHANGED <<value, fixpointComputations, pc, node, caches, result, err, seen, top, conv>>

\* Computation: ceil and floor
EvalUnary ==
    /\ pc = "eval"
    /\ node.t = "comp"
    /\ node.operation \in UnaryOps
    /\ stack' = Append(stack, [f |-> "un", op |-> node.operation])
    /\ node' = node.children[1]
    /\ ev' = [op |-> "unary"]
    /\ UNCHANGED <<value, fixpointComputations, pc, val, caches, result, err, seen, top, conv>>

RetUnary ==
    /\ pc = "ret"
    /\ stack # <<>>
    /\ LET fr == stack[Len(stack)]
       IN  /\ fr.f = "un"
           /\ val' = ApplyUnary(fr.op, val)
           /\ ev' = [op |-> "apply", operation |-> fr.op, l |-> val, r |-> val]
    /\ stack' = Pop(stack)
    /\ UNCHANGED <<value, fixpointComputations, pc, node, caches, result, err, seen, top, conv>>

\* Computation: parametrized_equivalence
EvalEquation ==
    /\ pc = "eval"
    /\ node.t = "comp"
    /\ node.operation = "parametrized_equivalence"
    /\ pc' = "ret"
    /\ val' = Fin(-Scale)
    /\ node' = NoNode
    /\ ev' = [op |-> "equation"]
    /\ UNCHANGED <<value, fixpointComputations, stack, caches, result, err, seen, top, conv>>

\* Computation: parametrized_reference, up to the evaluation of the argument
EvalCall ==
    /\ pc = "eval"
    /\ node.t = "comp"
    /\ node.operation = "parametrized_reference"
    /\ stack' = Append(stack, [f |-> "arg", cell |-> node.children[1].cell,
                               argument |-> node.children[2]])
    /\ node' = node.children[2]
    /\ ev' = [op |-> "call"]
    /\ UNCHANGED <<value, fixpointComputations, pc, val, caches, result, err, seen, top, conv>>

\* Computation: parametrized_reference, once the argument is known:
\* pattern_match, then computation(evaluatedParameter)
Dispatch ==
    /\ pc = "ret"
    /\ stack # <<>>
    /\ LET fr == stack[Len(stack)]
           evaluatedParameter == val
           matches == validMatches(fixpointComputations[fr.cell], evaluatedParameter)
       IN  /\ fr.f = "arg"
           /\ IF matches = <<>>
              THEN NoMatchOutcome(Pop(stack), caches)
              ELSE Invoke(pattern_match(fixpointComputations[fr.cell], evaluatedParameter),
                          evaluatedParameter, Pop(stack), caches)
           /\ ev' = [op |-> "dispatch", cell |-> fr.cell, arg |-> evaluatedParameter,
                     nmatch |-> Len(matches), outer |-> caches,
                     argument |-> fr.argument]
    /\ top' = [top EXCEPT !.calls = @ + 1]
    /\ UNCHANGED <<value, fixpointComputations, result, seen, conv>>

\* a return that leaves the callee's binding in the caller's cache
Discard_Leak(cs) ==
    IF Len(cs) <= 1 THEN Pop(cs)
    ELSE [Pop(cs) EXCEPT ![Len(cs) - 1].parameter = cs[Len(cs)].parameter]

\* the local FixpointCache of operator()(T) goes out of scope
Discard(cs) == Pop(cs)

\* operator()(T) returns: its cache is destroyed
CallRet ==
    /\ pc = "ret"
    /\ stack # <<>>
    /\ stack[Len(stack)].f = "callret"
    /\ stack' = Pop(stack)
    /\ caches' = Discard(caches)
    /\ ev' = [op |-> "callret", saved |-> stack[Len(stack)].saved,
              bound |-> stack[Len(stack)].bound, v |-> val]
    /\ UNCHANGED <<value, fixpointComputations, pc, node, val, result, err, seen, top, conv>>

\* a loop that does not store the new layer on the cell
StoreLayer_Skip(c, newLayer) == value

\* fixpoint->value = newLayer
StoreLayer(c, newLayer) == [value EXCEPT ![c] = newLayer]

\* a loop that returns the value the cell had before the store
LoopResult_Old(stored, c) == value[c]

\* return fixpoint->value, with `stored` the cell values after the store
LoopResult(stored, c) == stored[c]

\* a loop that works on f whatever cell its node names
LoopCell_Other(n) == "f"

\* auto fixpoint = get<Fixpoint<T>*>(get<FixpointReference<T>>(children[0]).value)
LoopCell(n) == n.children[1].cell

\* Computation: next_layer_equivalence, entering the do-while loop
EvalNextLayer ==
    /\ pc = "eval"
    /\ node.t = "comp"
    /\ node.operation = "next_layer_equivalence"
    /\ stack' = Append(stack, [f |-> "nl", cell |-> LoopCell(node),
                               body |-> node.children[2], loop |-> node])
    /\ node' = node.children[2]
    /\ ev' = [op |-> "enter", cell |-> LoopCell(node)]
    /\ UNCHANGED <<value, fixpointComputations, pc, val, caches, result, err, seen, top, conv>>

\* the rest of one iteration of the do-while loop, after the body returned
NextLayerStep ==
    /\ pc = "ret"
    /\ stack # <<>>
    /\ LET fr == stack[Len(stack)]
           newLayer == val
       IN  /\ fr.f = "nl"
           /\ \E o \in get(Top, fr.cell) :
                IF ~o.ok
                THEN /\ Crash("cache.get without an entry")
                     /\ ev' = [op |-> "nl", cell |-> fr.cell, defined |-> FALSE,
                               crashed |-> TRUE, live |-> value[fr.cell]]
                     /\ UNCHANGED <<value, seen, conv>>
                ELSE LET oldLayer == o.v
                         again == TGt(TAbs(TSub(newLayer, oldLayer)), delta)
                     IN  /\ value' = StoreLayer(fr.cell, newLayer)
                         /\ conv' = [conv EXCEPT ![fr.cell] =
                                        [has |-> ~again, v |-> newLayer, earlier |-> FALSE]]
                         /\ caches' = SetTop(remember(Top, fr.cell, newLayer))
                         /\ seen' = seen \cup {fr.cell}
                         /\ ev' = [op |-> "nl", cell |-> fr.cell,
                                   defined |-> contains(Top, fr.cell), crashed |-> FALSE,
                                   live |-> value[fr.cell],
                                   new |-> newLayer, old |-> oldLayer, again |-> again]
                         /\ IF again
                            THEN /\ pc' = "eval"
                                 /\ node' = fr.body
                                 /\ val' = NoVal
                                 /\ stack' = stack
                            ELSE /\ pc' = "ret"
                                 /\ node' = NoNode
                                 /\ val' = LoopResult(StoreLayer(fr.cell, newLayer), fr.cell)
                                 /\ stack' = Pop(stack)
                         /\ err' = err
    /\ UNCHANGED <<fixpointComputations, result, top>>

\* the top-level call returns; its cache is destroyed
Finish ==
    /\ pc = "ret"
    /\ stack = <<>>
    /\ pc' = "done"
    /\ result' = val
    /\ caches' = <<>>
    /\ ev' = [op |-> "finish"]
    /\ UNCHANGED <<value, fixpointComputations, node, val, stack, err, seen, top, conv>>

\* the equation nodes registered on f
Registered ==
    { fixpointComputations["f"][i] : i \in 1..Len(fixpointComputations["f"]) }

\* computations the client may call with an argument: a registered equation,
\* or (x + 1) * n
ParamTrees ==
    Registered \cup
    { Comp("multiplication", <<Comp("addition", <<RefCell("x"), RefT(Fin(Scale))>>), ParamVar>>) }

ArgumentValues == {OfInt(0), OfInt(1), OfInt(5)}

Step ==
    \/ EvalRef \/ EvalParam \/ EvalBinary \/ RetBin1 \/ RetBin2
    \/ EvalUnary \/ RetUnary \/ EvalEquation \/ EvalCall \/ Dispatch
    \/ CallRet \/ EvalNextLayer \/ NextLayerStep \/ Finish

Next ==
    \/ \E e \in Equations : Register("f", e[1], e[2])
    \/ \E tree \in Trees \cup Registered : Start(tree)
    \/ \E tree \in ParamTrees, a \in ArgumentValues : StartParam(tree, a)
    \/ Step

Spec == Init /\ [][Next]_vars

\* the evaluator's own steps are taken as long as one is possible
FairSpec == Spec /\ WF_vars(Step)

(***************************************************************************)
(* Properties                                                              *)
(***************************************************************************)

\* the pattern of the i-th equation registered on cell c
PatternOf(c, i) == fixpointComputations[c][i].children[1].children[2]
\* the body of the i-th equation registered on cell c
BodyOf(c, i) == fixpointComputations[c][i].children[2]

\* the i-th pattern of c is a wildcard, or the constant equal to v
Applies(c, i, v) ==
    \/ PatternOf(c, i).generalType = "variable"
    \/ /\ PatternOf(c, i).generalType = "constant"
       /\ OfInt(PatternOf(c, i).value) = v

\* the earliest-registered equation of c that applies to v
Earliest(c, v) ==
    CHOOSE i \in 1..Len(fixpointComputations[c]) :
        Applies(c, i, v) /\ \A j \in 1..(i - 1) : ~Applies(c, j, v)

\* a Call has just dispatched and the selected body is about to run
Dispatched == ev.op = "dispatch" /\ ev.nmatch > 0 /\ pc = "eval"

\* C1: when at least one equation matches the argument, dispatch evaluates
\* the body of the earliest-registered equation whose pattern is variable or
\* is the constant equal to the argument; with (constant(0), bodyA) before
\* (variable, bodyB), argument 0 runs bodyA and any other argument bodyB.
C1_FirstMatch ==
    Dispatched =>
        /\ node = BodyOf(ev.cell, Earliest(ev.cell, ev.arg))
        /\ (/\ Len(fixpointComputations[ev.cell]) = 2
            /\ PatternOf(ev.cell, 1) = ParamConst(0)
            /\ BodyOf(ev.cell, 1) = bodyA
            /\ PatternOf(ev.cell, 2) = ParamVar
            /\ BodyOf(ev.cell, 2) = bodyB)
           => node = (IF ev.arg = OfInt(0) THEN bodyA ELSE bodyB)

\* C1 witness: two equations match argument 0 and the first one runs
C1_Witness ==
    /\ Dispatched
    /\ ev.nmatch = 2
    /\ ev.arg = OfInt(0)
    /\ PatternOf(ev.cell, 1) = ParamConst(0)
    /\ PatternOf(ev.cell, 2) = ParamVar
    /\ node = bodyA

\* C2 (as claimed): a dispatch that finds no matching equation ends the
\* evaluation with an explicit error.
C2_NoMatchRaises ==
    (ev.op = "dispatch" /\ ev.nmatch = 0) => pc = "error"

\* C3 (as claimed): once a cell has been read in a top-level call, every
\* later read of it in that call, also inside the body of a Call, is served
\* from the memoized entry and not from the cell's live value.
C3_PassStable ==
    (ev.op = "ToT" /\ ev.seenBefore) => ev.hit

\* C3 (amended): a read through a cache that already holds an entry for the
\* cell returns that entry, whatever the live value is by then, and leaves
\* the cache as it was; a read through a cache without an entry (the first
\* one of a top-level call or of a Call body) returns the live value.
C3_ScopeStable ==
    (ev.op = "ToT" /\ pc = "ret") =>
        /\ ev.hit => (val = ev.entry /\ Top.cacheFixpoints[ev.cell] = ev.entry)
        /\ ~ev.hit => (val = ev.live /\ Top.cacheFixpoints[ev.cell] = ev.live)

\* C3 witness: a read served from the entry while the live value differs
C3_Witness ==
    /\ ev.op = "ToT"
    /\ ev.hit
    /\ ev.entry # ev.live
    /\ val = ev.entry

\* a next_layer_equivalence loop is running
InLoop == \E i \in 1..Len(stack) : stack[i].f = "nl"

\* C4 (as claimed): every next_layer_equivalence loop that is entered is
\* eventually left.
C4_LoopTerminates == InLoop ~> ~InLoop

\* C5 (as claimed): at the end of every iteration the old value is the
\* entry the cache held for the cell, and the loop returns exactly when
\* |newValue - oldValue| <= 0.01.
C5_ConvergencePolicy ==
    (ev.op = "nl") =>
        /\ ev.defined
        /\ ~ev.crashed
        /\ ~ev.again <=> TLe(TAbs(TSub(ev.new, ev.old)), delta)

\* the top-level call is iterate(x) with x := (x + 2/x) / 2 started at x = 1.0
NewtonFromOne == top.tree = NextLayerOf("x", Newton) /\ top.x0 = Fin(Scale)

\* |v - 1.41421356| <= 0.02
NearRootTwo(v) == TLe(TAbs(TSub(v, Fin(1414))), Fin(20))

\* C6: iterate(x) for x = 1.0 and x := (x + 2/x) / 2 terminates and returns
\* a value within 0.02 of 1.41421356.
C6_Newton ==
    (NewtonFromOne /\ pc \in {"eval", "ret"}) ~>
        (NewtonFromOne /\ pc = "done" /\ NearRootTwo(result))

\* C6 witness: that call has returned
C6_Witness == NewtonFromOne /\ pc = "done" /\ NearRootTwo(result)

\* C7: the value a loop on cell c returned stays on c until another loop
\* iteration writes c, and the first read of c in a later top-level call
\* returns it.
C7_Persists ==
    /\ \A c \in Cells : conv[c].has => value[c] = conv[c].v
    /\ (ev.op = "nl" /\ ~ev.crashed /\ ~ev.again) => val = value[ev.cell]
    /\ (ev.op = "ToT" /\ ~ev.hit /\ conv[ev.cell].has) => val = conv[ev.cell].v

\* C7 witness: a later call starts a new loop on x and its first read of x
\* is what the earlier loop returned
C7_Witness ==
    /\ ev.op = "ToT"
    /\ ~ev.seenBefore
    /\ conv[ev.cell].has
    /\ conv[ev.cell].earlier
    /\ val = conv[ev.cell].v
    /\ val = Fin(1414)
    /\ InLoop

\* C8: a top-level call starts with one cache that has no entry and no
\* binding other than its own argument, no cache outlives a call, and the
\* first read of a cell in a call returns the cell's live value.
C8_FreshCache ==
    /\ (ev.op = "start" /\ pc = "eval") =>
          /\ Len(caches) = 1
          /\ DOMAIN caches[1].cacheFixpoints = {}
          /\ caches[1].parameter =
               (IF ev.param THEN [has |-> TRUE, v |-> ev.arg] ELSE NoParameter)
    /\ Quiet => caches = <<>>
    /\ (ev.op = "ToT" /\ ~ev.seenBefore) => (~ev.hit /\ val = ev.live)

\* C8 witness: the top-level cache of a later call reads x, which an earlier
\* call changed, and gets the new value
C8_Witness ==
    /\ ev.op = "ToT"
    /\ ev.cell = "x"
    /\ ~ev.seenBefore
    /\ Len(caches) = 1
    /\ ~InLoop
    /\ conv["x"].earlier
    /\ val = conv["x"].v
    /\ val # Fin(Scale)
    /\ val # Fin(2 * Scale)

\* C9 (as claimed): a get on a cell without an entry, as the loop's read of
\* the old value can be, ends the evaluation with an explicit error.
C9_CacheMissRaises ==
    (ev.op = "nl" /\ ~ev.defined) => pc = "error"

\* the parameter expression p reads the variable slot
RECURSIVE ReadsSlot(_)
ReadsSlot(p) ==
    IF p.hasOp
    THEN \E i \in 1..Len(p.children) : ReadsSlot(p.children[i])
    ELSE ~p.hasInt

\* C10: evaluating a parameter expression that reads the variable slot
\* while no parameter is bound ends the evaluation with the "Invalid access."
\* error and no value.
C10_UnboundParameter ==
    (ev.op = "parameter" /\ ~ev.bound /\ ReadsSlot(ev.reads)) =>
        /\ pc = "error"
        /\ err = "Invalid access."
        /\ val = NoVal
        /\ result = NoVal
        /\ stack = <<>>

\* C10 witness: the slot was read inside a composite parameter expression
C10_Witness ==
    /\ ev.op = "parameter"
    /\ ~ev.bound
    /\ ev.reads.hasOp
    /\ ReadsSlot(ev.reads)
    /\ pc = "error"

\* C11: the parameter binding of a cache is fixed when the cache is built:
\* no step, nested Call evaluations included, changes the binding of a cache
\* that exists before and after the step.
C11_WriteOnce ==
    [][\A i \in 1..Len(caches) :
          i <= Len(caches') => caches'[i].parameter = caches[i].parameter]_vars

\* C11 witness: a nested Call runs under its own binding while the caller's
\* cache still holds the binding the caller was invoked with
C11_Witness ==
    /\ Len(caches) = 2
    /\ pc = "ret"
    /\ stack[1].f = "callret"
    /\ caches[1].parameter = [has |-> TRUE, v |-> stack[1].bound]
    /\ caches[2].parameter.has
    /\ caches[2].parameter.v # caches[1].parameter.v

\* the step just taken called remember on the innermost cache
Remembered == (ev.op = "nl" /\ ~ev.crashed) \/ (ev.op = "ToT" /\ ~ev.hit)

\* C12: after remember(c, v) the cache holds v for c, whether or not c had
\* an entry, and every other entry, the parameter binding and every other
\* cache are what they were.
C12_Remember ==
    [][Remembered' =>
          LET c == ev'.cell
              v == IF ev'.op = "nl" THEN ev'.new ELSE ev'.live
              before == caches[Len(caches)]
              after == caches'[Len(caches)]
          IN  /\ Len(caches') = Len(caches)
              /\ c \in DOMAIN after.cacheFixpoints
              /\ after.cacheFixpoints[c] = v
              /\ DOMAIN after.cacheFixpoints = (DOMAIN before.cacheFixpoints) \cup {c}
              /\ \A d \in (DOMAIN before.cacheFixpoints) \ {c} :
                    after.cacheFixpoints[d] = before.cacheFixpoints[d]
              /\ after.parameter = before.parameter
              /\ \A i \in 1..(Len(caches) - 1) : caches'[i] = caches[i]]_vars

\* C12 witness: remember has replaced an existing entry by a different value
\* in a cache that has a parameter bound
C12_Witness ==
    /\ ev.op = "nl"
    /\ ~ev.crashed
    /\ ev.defined
    /\ ev.new # ev.old
    /\ Top.parameter.has
    /\ Top.cacheFixpoints[ev.cell] = ev.new

\* the tree has literal leaves only: no cell reference, no parameter
RECURSIVE CellFree(_)
CellFree(tree) ==
    IF tree.t = "ref" THEN tree.holds = "T"
    ELSE IF tree.t = "comp" /\ tree.operation \in BinaryOps \cup UnaryOps
    THEN \A i \in 1..Len(tree.children) : CellFree(tree.children[i])
    ELSE FALSE

\* the value of a tree with literal leaves, from the tree alone
RECURSIVE PureValue(_)
PureValue(tree) ==
    IF tree.t = "ref" THEN tree.lit
    ELSE IF tree.operation \in BinaryOps
    THEN ApplyBinary(tree.operation, PureValue(tree.children[1]), PureValue(tree.children[2]))
    ELSE ApplyUnary(tree.operation, PureValue(tree.children[1]))

\* C13: a top-level call on a tree without cell references always returns,
\* and what it returns depends on the tree only (not on the cells, on earlier
\* calls or on the order the operands ran in), so two calls on the same tree
\* return the same value.
C13_Deterministic ==
    (top.tree.t = "comp" /\ CellFree(top.tree)) =>
        /\ pc \notin {"error", "crashed"}
        /\ pc = "done" => result = PureValue(top.tree)

\* C13 witness: ceil(5 / 2) * 3 has returned 9
C13_Witness ==
    /\ top.tree = CeilTimes
    /\ pc = "done"
    /\ result = OfInt(9)

\* v is the result of op on the finite operands l and r: exact for + and -,
\* the nearest representable value for * and /, the nearest whole number
\* above (ceil) or below (floor) for the rounding functions
Exact(op, l, r, v) ==
    IF op = "addition" THEN v.n = l.n + r.n
    ELSE IF op = "subtraction" THEN v.n = l.n - r.n
    ELSE IF op = "multiplication" THEN 2 * AbsInt(v.n * Scale - l.n * r.n) <= Scale
    ELSE IF op = "division" THEN 2 * AbsInt(v.n * r.n - l.n * Scale) <= AbsInt(r.n)
    ELSE IF op = "ceil" THEN v.n % Scale = 0 /\ v.n >= l.n /\ v.n - l.n < Scale
    ELSE v.n % Scale = 0 /\ v.n <= l.n /\ l.n - v.n < Scale

\* C14: a binary node evaluates to the sum, difference, product or quotient
\* of its left and right operand values, a unary node to the ceil or floor of
\* its operand value, and a parameter expression n - 1 to the bound parameter
\* minus one; 6 / 3 is 2, ceil(2.5) is 3 and floor(2.5) is 2.
C14_Arithmetic ==
    /\ (ev.op = "apply" /\ IsFin(ev.l) /\ IsFin(ev.r)) =>
          IF ev.operation = "division" /\ ev.r.n = 0
          THEN (IF ev.l.n = 0 THEN val = NaN ELSE IsInf(val))
          ELSE IsFin(val) /\ Exact(ev.operation, ev.l, ev.r, val)
    /\ (ev.op = "parameter" /\ ~ev.thrown
           /\ ev.reads = ParamOp("subtraction", ParamVar, 1)) =>
          val = Fin(Top.parameter.v.n - Scale)
    /\ (pc = "done" /\ top.tree = Div63) => result = OfInt(2)
    /\ (pc = "done" /\ top.tree = Ceil25) => result = OfInt(3)
    /\ (pc = "done" /\ top.tree = Floor25) => result = OfInt(2)

\* C14 witness: ceil(2.5) has returned 3
C14_Witness ==
    /\ pc = "done"
    /\ top.tree = Ceil25
    /\ result = OfInt(3)
    /\ ev.op = "finish"

\* C15 (as claimed): when the loop reaches its first convergence test and
\* the cache has no entry for the cell (the body did not read it), the old
\* value is the cell's current value.
C15_OldValueInitialised ==
    (ev.op = "nl" /\ ~ev.defined) => (~ev.crashed /\ ev.old = ev.live)

\* C16: within one cache scope the first read of a cell stores the cell's
\* live value and returns it, a later read returns the cache entry and leaves
\* the caches alone, and an entry of a cache changes only in a step of a
\* next_layer_equivalence loop on that cell working on the innermost cache;
\* no entry disappears while its cache lives.
C16_ReadScope ==
    [][/\ (ev'.op = "ToT" /\ ~ev'.hit) =>
            /\ ev'.cell \notin DOMAIN caches[Len(caches)].cacheFixpoints
            /\ val' = value[ev'.cell]
            /\ Len(caches') = Len(caches)
            /\ ev'.cell \in DOMAIN caches'[Len(caches)].cacheFixpoints
            /\ caches'[Len(caches)].cacheFixpoints[ev'.cell] = value[ev'.cell]
       /\ (ev'.op = "ToT" /\ ev'.hit) =>
            /\ ev'.cell \in DOMAIN caches[Len(caches)].cacheFixpoints
            /\ val' = caches[Len(caches)].cacheFixpoints[ev'.cell]
            /\ caches' = caches
       /\ \A i \in 1..Len(caches) :
            i <= Len(caches') =>
               \A c \in DOMAIN caches[i].cacheFixpoints :
                  /\ c \in DOMAIN caches'[i].cacheFixpoints
                  /\ caches'[i].cacheFixpoints[c] # caches[i].cacheFixpoints[c] =>
                        /\ ev'.op = "nl"
                        /\ ev'.cell = c
                        /\ i = Len(caches)
                        /\ caches'[i].cacheFixpoints[c] = ev'.new
      ]_vars

\* a read inside a running loop answered from the cache with a value that
\* the loop remembered, not the value the cell had when the call started
C16_Witness ==
    /\ ev.op = "ToT"
    /\ ev.hit
    /\ InLoop
    /\ ev.entry # top.x0
    /\ ev.cell = "x"
    /\ val = ev.entry

\* C17: after every completed iteration of a next_layer_equivalence loop
\* the cell's value and its entry in the current cache both equal the new
\* layer just computed, and when the loop ends it returns that value.
C17_LoopStores ==
    (ev.op = "nl" /\ ~ev.crashed) =>
        /\ value[ev.cell] = ev.new
        /\ caches # <<>>
        /\ ev.cell \in DOMAIN caches[Len(caches)].cacheFixpoints
        /\ caches[Len(caches)].cacheFixpoints[ev.cell] = ev.new
        /\ ev.again => (pc = "eval" /\ val = NoVal)
        /\ ~ev.again => (pc = "ret" /\ val = ev.new)

\* a loop returns a layer that differs from the value the cell had before
\* its last iteration
C17_Witness ==
    /\ ev.op = "nl"
    /\ ~ev.crashed
    /\ ~ev.again
    /\ ev.new # ev.live
    /\ val = ev.new
    /\ value[ev.cell] = ev.new

\* C18: a call f(argument) evaluates the argument under the caller's
\* binding, selects the equation for the argument's value v and evaluates its
\* body in a new innermost cache whose active parameter is v, above the
\* caller's caches left as they were; a parameter read yields the binding of
\* the innermost cache; and when the call returns the caller's binding is
\* the one it had when the call was made.
C18_CallScoping ==
    /\ Dispatched =>
          /\ Len(caches) = Len(ev.outer) + 1
          /\ SubSeq(caches, 1, Len(ev.outer)) = ev.outer
          /\ caches[Len(caches)].parameter = [has |-> TRUE, v |-> ev.arg]
          /\ caches[Len(caches)].cacheFixpoints = <<>>
          /\ node = pattern_match(fixpointComputations[ev.cell], ev.arg).children[2]
          /\ ev.argument.t = "param" =>
                ev.arg = evaluate(ev.argument, ev.outer[Len(ev.outer)]).v
    /\ (ev.op = "parameter" /\ ~ev.thrown /\ ev.reads = ParamVar) =>
          /\ caches[Len(caches)].parameter.has
          /\ val = caches[Len(caches)].parameter.v
    /\ (ev.op = "callret" /\ caches # <<>>) =>
          /\ caches[Len(caches)].parameter = ev.saved
          /\ val = ev.v

\* a nested call made with another argument than its caller's returned, and
\* the caller's binding is still its own
C18_Witness ==
    /\ ev.op = "callret"
    /\ caches # <<>>
    /\ ev.saved.has
    /\ ev.saved.v # ev.bound
    /\ caches[Len(caches)].parameter = [has |-> TRUE, v |-> ev.saved.v]

\* the tree holds a next_layer_equivalence node
RECURSIVE HasNextLayer(_)
HasNextLayer(t) ==
    /\ t.t = "comp"
    /\ \/ t.operation = "next_layer_equivalence"
       \/ \E i \in 1..Len(t.children) : HasNextLayer(t.children[i])

\* neither the tree of the current call nor an equation it can reach through
\* a call holds a next_layer_equivalence node
LoopFreeRun ==
    /\ ~HasNextLayer(top.tree)
    /\ \A c \in Cells : \A i \in 1..Len(fixpointComputations[c]) :
          ~HasNextLayer(fixpointComputations[c][i])

\* C19: a cell's value changes only in an iteration of a
\* next_layer_equivalence loop, and then only the value of the cell that the
\* innermost running loop node names; evaluation never changes an equation
\* list; a call whose tree and reachable equations hold no loop node leaves
\* the values as they were when it started.
C19_WritesOnlyInLoop ==
    [][/\ \A c \in Cells :
            value'[c] # value[c] =>
               /\ ev'.op = "nl"
               /\ ev'.cell = c
               /\ stack # <<>>
               /\ stack[Len(stack)].f = "nl"
               /\ stack[Len(stack)].loop.operation = "next_layer_equivalence"
               /\ stack[Len(stack)].loop.children[1].cell = c
       /\ fixpointComputations' # fixpointComputations =>
               /\ ev'.op = "register"
               /\ pc \in {"idle", "done", "error"}
       /\ LoopFreeRun' => value'["x"] = top'.x0
      ]_vars

\* a loop on x moved x away from its value at the start of the call and f
\* kept its value
C19_Witness ==
    /\ ev.op = "nl"
    /\ ~ev.crashed
    /\ ev.cell = "x"
    /\ value["x"] # top.x0
    /\ value["x"] # ev.live
    /\ value["f"] = Fin(0)

\* the client called operator()(T) on an equation node of cell c and the
\* body selected for the argument is about to run
Redispatched ==
    /\ ev.op = "start"
    /\ ev.param
    /\ ev.tree.operation = "parametrized_equivalence"
    /\ pc = "eval"

\* C20: when an equation with the variable pattern is registered on a cell,
\* every dispatch on that cell runs the body of that equation or of one
\* registered before it, so a constant-pattern equation registered after it
\* is never selected, also for the argument equal to its constant; with
\* (variable, bodyB) before (constant(0), bodyA) every argument runs bodyB.
C20_WildcardShadows ==
    /\ Dispatched =>
          /\ \A i \in 1..Len(fixpointComputations[ev.cell]) :
                PatternOf(ev.cell, i) = ParamVar =>
                   \E k \in 1..i : node = BodyOf(ev.cell, k)
          /\ (/\ Len(fixpointComputations[ev.cell]) >= 2
              /\ PatternOf(ev.cell, 1) = ParamVar
              /\ BodyOf(ev.cell, 1) = bodyB
              /\ PatternOf(ev.cell, 2) = ParamConst(0)
              /\ BodyOf(ev.cell, 2) = bodyA)
             => node = bodyB
    /\ Redispatched =>
          LET c == ev.tree.children[1].children[1].cell
          IN  \A i \in 1..Len(fixpointComputations[c]) :
                 PatternOf(c, i) = ParamVar =>
                    \E k \in 1..i : node = BodyOf(c, k)

\* the argument equals the constant of the second equation and the body of
\* the wildcard equation registered first runs
C20_Witness ==
    /\ Dispatched
    /\ Len(fixpointComputations[ev.cell]) >= 2
    /\ PatternOf(ev.cell, 1) = ParamVar
    /\ PatternOf(ev.cell, 2) = ParamConst(0)
    /\ ev.arg = OfInt(0)
    /\ ev.nmatch = 2
    /\ node = BodyOf(ev.cell, 1)
    /\ node # BodyOf(ev.cell, 2)

\* C21 (as claimed): a binary node always runs its left operand first.
C21_LeftBeforeRight ==
    [][ev'.op = "binary" => node' = node.children[1]]_vars

\* f(0) = base registered first, f(n) = f(n - 1) * n second
RecEquations ==
    <<EquationOf(CallOf("f", ParamConst(0)), bodyA),
      EquationOf(CallOf("f", ParamVar), bodyRec)>>

\* the arguments k whose k + 1 nested activations fit the stack
RecArgs == {k \in 0..(MaxDepth - 2) : ParamConst(k) \in Arguments}

\* the call f(k) is the current top-level call and f has the two equations
RecCall(k) ==
    /\ top.tree = CallOf("f", ParamConst(k))
    /\ fixpointComputations["f"] = RecEquations

\* base * k!
RECURSIVE RecValue(_)
RecValue(k) == IF k = 0 THEN OfInt(10) ELSE TMul(RecValue(k - 1), OfInt(k))

\* C22: with (constant(0), base) registered before (variable n, f(n - 1) * n),
\* the call f(k), k >= 0, makes exactly k + 1 dispatches and ends: the
\* dispatch at nesting depth i has argument k - i and binds it as the active
\* parameter of that depth, the constant(0) equation is the one run at depth
\* k and only there, and the call returns base * k!.
C22_RecursionTerminates ==
    /\ [](\A k \in RecArgs :
            (RecCall(k) /\ pc \in {"eval", "ret"}) =>
               /\ top.calls <= k + 1
               /\ Len(caches) <= k + 2
               /\ \A i \in 2..Len(caches) :
                     caches[i].parameter = [has |-> TRUE, v |-> OfInt(k - (i - 2))]
               /\ Dispatched =>
                     /\ Len(caches) = top.calls + 1
                     /\ ev.arg = OfInt(k - (top.calls - 1))
                     /\ (top.calls = k + 1) => node = bodyA
                     /\ (top.calls < k + 1) => node = bodyRec
               /\ ev.op = "dispatch" => ev.nmatch > 0)
    /\ [](\A k \in RecArgs :
            (RecCall(k) /\ ev.op = "finish") =>
               /\ top.calls = k + 1
               /\ result = RecValue(k))
    /\ \A k \in RecArgs :
          (RecCall(k) /\ pc = "eval" /\ ev.op = "start")
             ~> (RecCall(k) /\ pc = "done" /\ top.calls = k + 1)

\* f(2) returned after three dispatches
C22_Witness ==
    /\ RecCall(2)
    /\ ev.op = "finish"
    /\ pc = "done"
    /\ top.calls = 3
    /\ result = OfInt(20)

\* the cell of the equation node the client invoked
InvokedCell == top.tree.children[1].children[1].cell

\* the client's call of operator()(T) on an equation node has returned with
\* ev.v for the argument ev.bound
Reinvoked ==
    /\ ev.op = "callret"
    /\ stack = <<>>
    /\ top.tree.t = "comp"
    /\ top.tree.operation = "parametrized_equivalence"

\* C23: operator()(T) called with v on a registered equation node of cell f,
\* when some equation of f matches v, runs the body of f's earliest matching
\* equation in a fresh cache that binds v, whichever equation the node is,
\* and returns what that body yields (for a literal body the literal, for a
\* body that reads x the value of x); Computation on an equation node
\* returns -1.
C23_Redispatch ==
    /\ [](Redispatched =>
            LET c == ev.tree.children[1].children[1].cell
            IN  /\ ev.tree \in Registered
                /\ (\E i \in 1..Len(fixpointComputations[c]) : Applies(c, i, ev.arg)) =>
                      /\ node = BodyOf(c, Earliest(c, ev.arg))
                      /\ caches = <<[cacheFixpoints |-> <<>>,
                                     parameter |-> [has |-> TRUE, v |-> ev.arg]]>>)
    /\ [](Reinvoked =>
            LET c == InvokedCell
            IN  (\E i \in 1..Len(fixpointComputations[c]) : Applies(c, i, ev.bound)) =>
                   LET body == BodyOf(c, Earliest(c, ev.bound))
                   IN  /\ pc = "ret"
                       /\ val = ev.v
                       /\ (body.t = "ref" /\ body.holds = "T") => ev.v = body.lit
                       /\ (body.t = "ref" /\ body.holds = "fixpoint") => ev.v = value[body.cell])
    /\ [](ev.op = "equation" =>
            /\ pc = "ret"
            /\ stack = <<>>
            /\ val = Fin(-Scale))
    /\ [][(ev.op = "equation" /\ ev'.op = "finish") => result' = Fin(-Scale)]_vars

\* the second equation (variable, bodyB) was invoked with 0 and returned the
\* value of bodyA, the body of the first equation (constant(0), bodyA)
C23_Witness ==
    /\ Reinvoked
    /\ Len(fixpointComputations["f"]) >= 2
    /\ top.tree = fixpointComputations["f"][2]
    /\ PatternOf("f", 1) = ParamConst(0)
    /\ BodyOf("f", 1) = bodyA
    /\ BodyOf("f", 2) = bodyB
    /\ ev.bound = OfInt(0)
    /\ ev.v = OfInt(10)

\* the pattern constant(3) + 1
ThreePlusOne == ParamOp("addition", ParamConst(3), 1)

\* the equations of cell c whose pattern is built with +, - or *
CompositeAt(c) ==
    {i \in 1..Len(fixpointComputations[c]) : PatternOf(c, i).hasOp}

\* C24: an equation whose pattern is a composite parameter expression
\* matches every argument: each dispatch on its cell counts it among the
\* matches and runs its body or the body of an equation registered before
\* it; with constant(3) + 1 registered first its body runs for every
\* argument, also for arguments other than 4.
C24_CompositeWildcard ==
    /\ ev.op = "dispatch" =>
          /\ ev.nmatch >= Cardinality(CompositeAt(ev.cell))
          /\ \A i \in CompositeAt(ev.cell) :
                /\ PatternOf(ev.cell, i).generalType = "variable"
                /\ pc # "crashed" =>
                      /\ pc = "eval"
                      /\ \E k \in 1..i : node = BodyOf(ev.cell, k)
    /\ (/\ ev.op = "dispatch"
        /\ pc # "crashed"
        /\ fixpointComputations[ev.cell] # <<>>
        /\ PatternOf(ev.cell, 1) = ThreePlusOne)
       => (pc = "eval" /\ node = BodyOf(ev.cell, 1))

\* the pattern constant(3) + 1 is the only match for argument 5 and its
\* body runs
C24_Witness ==
    /\ Dispatched
    /\ PatternOf(ev.cell, 1) = ThreePlusOne
    /\ BodyOf(ev.cell, 1) = bodyA
    /\ ev.arg = OfInt(5)
    /\ ev.nmatch = 1
    /\ node = bodyA

====
